---- MODULE Spec2Model ----
(***************************************************************************)
(* Model of CommandTracker (src/command_tracker.py): the store of          *)
(* suggestion records, its statistics and pattern table, and the           *)
(* operations track_suggestion, track_user_decision,                       *)
(* track_execution_result, clear_old_data and _find_similar_commands.      *)
(*                                                                         *)
(* Strings are sequences of one-character strings, so that split(),        *)
(* lower(), len() and the substring test are computed as Python does.      *)
(* Floats are modelled as exact fractions [n, d] in lowest terms.          *)
(* Time is one clock counted in ticks; int(time.time()) is the clock in    *)
(* whole seconds and datetime.now() is the clock itself.                   *)
(***************************************************************************)
EXTENDS Integers, Sequences, FiniteSets, TLC

(* ------------------------------ bounds --------------------------------- *)

\* most steps (calls and clock advances) in a run; caps every counter
MaxCalls == 5

\* most whole days the clock advances
MaxDays == 1

\* most sub-second ticks the clock advances within a day
MaxSubTicks == 1

\* largest limit passed to _find_similar_commands besides the default
MaxLimit == 1

\* most _load_history calls in progress at once
MaxFrames == 3

\* longest text, in characters, among the enumerated inputs of the hash
\* and the feature extraction
MaxTextLen == 3

\* resolution of the clock: ticks of datetime.now() in one second
TicksPerSecond == 2

(* --------------------------- program constants ------------------------- *)

SecondsPerDay == 86400

TicksPerDay == SecondsPerDay * TicksPerSecond

\* output[:1000]
OutputLimit == 1000

\* limit: int = 5
DefaultLimit == 5

\* Python's None, True and False for a field that holds None or a bool
None == "None"

True == "True"

False == "False"

\* bool -> the value stored in such a field
PyBool(b) == IF b THEN True ELSE False

\* an optional value: NoneOpt is None, Some(v) is the value v
NoneOpt == <<>>

Some(v) == <<v>>

(* ------------------------------ strings -------------------------------- *)

\* str.isspace() for one character
IsSpace(c) == c \in {" ", "\t", "\n"}

\* str.lower() for one character
LowerChar(c) ==
    CASE c = "L" -> "l"
      [] c = "S" -> "s"
      [] c = "A" -> "a"
      [] OTHER -> c

\* str.lower()
Lower(s) == [i \in 1..Len(s) |-> LowerChar(s[i])]

\* s[:n]
Take(s, n) == IF Len(s) <= n THEN s ELSE SubSeq(s, 1, n)

RECURSIVE SplitFrom(_, _, _)
\* str.split(): the words of s from position i on; cur is the word being read
SplitFrom(s, i, cur) ==
    IF i > Len(s)
    THEN IF cur = <<>> THEN <<>> ELSE <<cur>>
    ELSE IF IsSpace(s[i])
         THEN IF cur = <<>>
              THEN SplitFrom(s, i + 1, <<>>)
              ELSE <<cur>> \o SplitFrom(s, i + 1, <<>>)
         ELSE SplitFrom(s, i + 1, Append(cur, s[i]))

\* str.split() with no separator: maximal runs of non-whitespace
Split(s) == SplitFrom(s, 1, <<>>)

\* set(seq)
ToSet(seq) == {seq[i] : i \in 1..Len(seq)}

\* sub in s
Contains(s, sub) ==
    \E i \in 0..(Len(s) - Len(sub)) :
        \A j \in 1..Len(sub) : s[i + j] = sub[j]

\* s.strip()
Strip(s) ==
    LET keep == {i \in 1..Len(s) : ~IsSpace(s[i])}
    IN  IF keep = {} THEN <<>>
        ELSE LET lo == CHOOSE i \in keep : \A j \in keep : i <= j
                 hi == CHOOSE i \in keep : \A j \in keep : j <= i
             IN  SubSeq(s, lo, hi)

\* s.startswith(p)
StartsWith(s, p) == Len(p) <= Len(s) /\ SubSeq(s, 1, Len(p)) = p

(* ------------------------------ fractions ------------------------------ *)

Abs(x) == IF x < 0 THEN -x ELSE x

Max2(a, b) == IF a >= b THEN a ELSE b

RECURSIVE Gcd(_, _)
Gcd(a, b) == IF b = 0 THEN a ELSE Gcd(b, a % b)

\* the fraction n/d (d > 0) in lowest terms
Rat(n, d) ==
    LET g == Gcd(Abs(n), d)
    IN  [n |-> n \div g, d |-> d \div g]

RatAdd(a, b) == Rat(a.n * b.d + b.n * a.d, a.d * b.d)

RatMul(a, b) == Rat(a.n * b.n, a.d * b.d)

RatLess(a, b) == a.n * b.d < b.n * a.d

Zero == Rat(0, 1)

One == Rat(1, 1)

(* ------------------------------ inputs --------------------------------- *)

\* "list files"
ReqListFiles == <<"l", "i", "s", "t", " ", "f", "i", "l", "e", "s">>

\* "show files"
ReqShowFiles == <<"s", "h", "o", "w", " ", "f", "i", "l", "e", "s">>

\* "" (a request without words)
ReqEmpty == <<>>

\* "ls -la"
CmdLs == <<"l", "s", " ", "-", "l", "a">>

\* "pwd"
CmdPwd == <<"p", "w", "d">>

\* "sudo"
StrSudo == <<"s", "u", "d", "o">>

\* "short", "medium", "long": the request-length classes
StrShort == <<"s", "h", "o", "r", "t">>

StrMedium == <<"m", "e", "d", "i", "u", "m">>

StrLong == <<"l", "o", "n", "g">>

\* "" (a command without words)
CmdEmpty == <<>>

\* the (request, command) pairs tracked where the pattern table is looked
\* at: command types "short" (also the key of the request's length class),
\* "" and "ls"
TypedSuggestions ==
    {<<ReqListFiles, StrShort>>, <<ReqListFiles, CmdEmpty>>, <<ReqListFiles, CmdLs>>}

\* the (request, command) pairs that are tracked
Suggestions == {<<ReqListFiles, CmdLs>>, <<ReqEmpty, CmdPwd>>}

\* the requests that are looked up
QueryRequests == {ReqListFiles, ReqShowFiles, ReqEmpty}

Commands == {CmdLs, CmdPwd}

Models == {"test_model"}

SystemInfos == {"macOS"}

Feedbacks == {None}

Outputs == {NoneOpt, Some(<<>>), Some(<<"o", "k">>)}

\* the outcomes of a write of data_file: TRUE when it succeeds
WritesSucceed == {TRUE}

DaysToKeep == {0, 1}

Limits == (1..MaxLimit) \cup {DefaultLimit}

(* ------------------------- hashing and features ------------------------ *)

RECURSIVE Join(_)
\* " ".join(words)
Join(words) ==
    IF words = <<>> THEN <<>>
    ELSE IF Len(words) = 1 THEN words[1]
    ELSE words[1] \o <<" ">> \o Join(Tail(words))

\* Normalize without the lowercasing
NormalizeKeepCase(command) == Join(Split(command))

\* " ".join(command.lower().split())
Normalize(command) == Join(Split(Lower(command)))

\* sha256 of the normalized command, 16 hex digits: an injective digest
_generate_command_hash(command) == [sha256_16 |-> Normalize(command)]

FileOps ==
    { <<"l", "s">>, <<"c", "a", "t">>, <<"g", "r", "e", "p">>,
      <<"f", "i", "n", "d">>, <<"t", "o", "u", "c", "h">>,
      <<"m", "k", "d", "i", "r">>, <<"r", "m">> }

SystemOps ==
    { <<"p", "s">>, <<"t", "o", "p">>, <<"k", "i", "l", "l">>,
      <<"s", "y", "s", "t", "e", "m", "c", "t", "l">>,
      <<"s", "e", "r", "v", "i", "c", "e">> }

NetworkOps ==
    { <<"c", "u", "r", "l">>, <<"w", "g", "e", "t">>, <<"p", "i", "n", "g">>,
      <<"s", "s", "h">>, <<"s", "c", "p">> }

PackageOps ==
    { <<"a", "p", "t">>, <<"y", "u", "m">>, <<"b", "r", "e", "w">>,
      <<"p", "i", "p">>, <<"n", "p", "m">> }

\* any(word in command.lower() for word in words)
AnyIn(words, command) == \E w \in words : Contains(Lower(command), w)

_extract_command_features(command, user_request) ==
    [ command_length |-> Len(command),
      word_count |-> Len(Split(command)),
      has_pipes |-> Contains(command, <<"|">>),
      has_redirects |-> Contains(command, <<">">>) \/ Contains(command, <<"<">>),
      has_sudo |-> StartsWith(Strip(command), StrSudo),
      has_flags |-> Contains(command, <<"-">>),
      command_type |-> IF Split(command) # <<>> THEN Split(command)[1] ELSE <<>>,
      request_length |-> Len(user_request),
      request_words |-> Len(Split(user_request)),
      contains_file_ops |-> AnyIn(FileOps, command),
      contains_system_ops |-> AnyIn(SystemOps, command),
      contains_network_ops |-> AnyIn(NetworkOps, command),
      contains_package_ops |-> AnyIn(PackageOps, command) ]

(* -------------------------------- state -------------------------------- *)

VARIABLES
    commands,           \* history["commands"]: the list of records
    patterns,           \* history["patterns"]: bucket key -> counters
    statistics,         \* history["statistics"]
    session_commands,   \* the tracking ids this tracker has returned, in order
    file,               \* the document in data_file, or Absent
    now,                \* the wall clock, in ticks
    calls,              \* the number of steps taken so far
    lastCall,           \* the most recent call: its name, arguments and result
    frames,             \* the _load_history calls in progress; 0 once constructed
    other               \* a second tracker process on the same data_file, if any

vars == <<commands, patterns, statistics, session_commands, file, now, calls, lastCall,
          frames, other>>

Absent == [exists |-> FALSE]

\* History with the pattern table left out
HistoryWithoutPatterns(c, p, s) ==
    [exists |-> TRUE, commands |-> c, patterns |-> <<>>, statistics |-> s]

\* history as a whole, as json.dump writes it
History(c, p, s) == [exists |-> TRUE, commands |-> c, patterns |-> p, statistics |-> s]

\* int(time.time())
TimeSeconds(t) == t \div TicksPerSecond

NoCall == [op |-> "none"]

\* the "statistics" of the structure _load_history returns without a file
DefaultStatistics ==
    [ total_suggestions |-> 0,
      total_accepted |-> 0,
      total_rejected |-> 0,
      acceptance_rate |-> Zero ]

\* there is no second process
NoProcess == [running |-> FALSE]

\* _load_history when data_file does not exist, then __init__
Init ==
    /\ commands = <<>>
    /\ patterns = <<>>
    /\ statistics = DefaultStatistics
    /\ session_commands = <<>>
    /\ file = Absent
    /\ now = 0
    /\ calls = 0
    /\ lastCall = NoCall
    /\ frames = 0
    /\ other = NoProcess

\* one more step is taken by the constructed tracker, within the bound of
\* the run
Step ==
    /\ calls < MaxCalls
    /\ calls' = calls + 1
    /\ frames = 0
    /\ UNCHANGED <<frames, other>>

\* _save_history that keeps the stored records the memory does not hold
SaveKeepingStored(ok, c, p, s) ==
    LET stored == IF file.exists /\ "commands" \in DOMAIN file
                  THEN file.commands ELSE <<>>
        Missing(r) == \A i \in 1..Len(c) : c[i] # r
    IN  file' = IF ok THEN History(SelectSeq(stored, Missing) \o c, p, s) ELSE file

\* _save_history: the write succeeds, or fails with an IOError that is
\* caught and leaves the document as it was
_save_history(ok, c, p, s) ==
    file' = IF ok THEN History(c, p, s) ELSE file

(* ------------------------------ operations ----------------------------- *)

\* FindIndex with the loop variable used after the loop: when no record
\* matches, the last record is taken
FindIndexOrLast(c, tracking_id) ==
    IF \E i \in 1..Len(c) : c[i].tracking_id = tracking_id
    THEN CHOOSE i \in 1..Len(c) :
            /\ c[i].tracking_id = tracking_id
            /\ \A j \in 1..(i - 1) : c[j].tracking_id # tracking_id
    ELSE Len(c)

\* the index of the first record with this tracking_id, 0 if there is none
\* (for command in history["commands"]: if ... == tracking_id: ...; break)
FindIndex(c, tracking_id) ==
    IF \E i \in 1..Len(c) : c[i].tracking_id = tracking_id
    THEN CHOOSE i \in 1..Len(c) :
            /\ c[i].tracking_id = tracking_id
            /\ \A j \in 1..(i - 1) : c[j].tracking_id # tracking_id
    ELSE 0

\* DecisionIndex that skips records already resolved
DecisionIndexPendingOnly(c, tracking_id) ==
    IF \E i \in 1..Len(c) : c[i].tracking_id = tracking_id /\ c[i].accepted = None
    THEN CHOOSE i \in 1..Len(c) :
            /\ c[i].tracking_id = tracking_id /\ c[i].accepted = None
            /\ \A j \in 1..(i - 1) :
                  ~(c[j].tracking_id = tracking_id /\ c[j].accepted = None)
    ELSE 0

\* the loop of track_user_decision: the record the decision is written to
DecisionIndex(c, tracking_id) == FindIndex(c, tracking_id)

\* NewTrackingId without the list length
NewTrackingIdSecondsOnly(t, c) == <<TimeSeconds(t), 0>>

\* f"{int(time.time())}_{len(self.history['commands'])}"
NewTrackingId(t, c) == <<TimeSeconds(t), Len(c)>>

\* an id no record carries
UnknownId == <<-1, 0>>

\* the ids a caller can hold: every id returned so far, and an unknown one
KnownIds == ToSet(session_commands) \cup {UnknownId}

\* the record track_suggestion builds
NewCommandEntry(tracking_id, t, user_request, suggested_command, model_used, system_info) ==
    [ tracking_id |-> tracking_id,
      timestamp |-> t,
      user_request |-> user_request,
      suggested_command |-> suggested_command,
      command_hash |-> _generate_command_hash(suggested_command),
      model_used |-> model_used,
      system_info |-> system_info,
      features |-> _extract_command_features(suggested_command, user_request),
      accepted |-> None,
      execution_success |-> None,
      execution_output |-> NoneOpt,
      user_feedback |-> None,
      decision_timestamp |-> NoneOpt,
      execution_timestamp |-> NoneOpt ]

\* track_suggestion that opens an empty bucket for the command
SuggestionOpensBucket(user_request, suggested_command, model_used, system_info, ok) ==
    /\ Step
    /\ LET tracking_id == NewTrackingId(now, commands)
       IN  /\ commands' = Append(commands,
                   NewCommandEntry(tracking_id, now, user_request, suggested_command,
                                   model_used, system_info))
           /\ session_commands' = Append(session_commands, tracking_id)
           /\ statistics' = [statistics EXCEPT !.total_suggestions = @ + 1]
           /\ patterns' = [k \in (DOMAIN patterns) \cup {suggested_command} |->
                              IF k \in DOMAIN patterns THEN patterns[k]
                              ELSE [accepted |-> 0, rejected |-> 0, total |-> 0]]
           /\ _save_history(ok, commands', patterns', statistics')
           /\ lastCall' = [op |-> "track_suggestion", ret |-> tracking_id]
    /\ UNCHANGED now

track_suggestion(user_request, suggested_command, model_used, system_info, ok) ==
    /\ Step
    /\ LET tracking_id == NewTrackingId(now, commands)
       IN  /\ commands' = Append(commands,
                   NewCommandEntry(tracking_id, now, user_request, suggested_command,
                                   model_used, system_info))
           /\ session_commands' = Append(session_commands, tracking_id)
           /\ statistics' = [statistics EXCEPT !.total_suggestions = @ + 1]
           /\ patterns' = patterns
           /\ _save_history(ok, commands', patterns', statistics')
           /\ lastCall' = [op |-> "track_suggestion", ret |-> tracking_id]
    /\ UNCHANGED now

\* the counters of bucket key, created at zero when the key is new
Bucket(p, key) ==
    IF key \in DOMAIN p THEN p[key] ELSE [accepted |-> 0, rejected |-> 0, total |-> 0]

\* BumpBucket that counts the decision in total only
BumpBucketTotalOnly(p, key, accepted) ==
    LET b == Bucket(p, key)
        nb == [b EXCEPT !.total = @ + 1]
    IN  [k \in (DOMAIN p) \cup {key} |-> IF k = key THEN nb ELSE p[k]]

\* one bucket of _update_patterns: total += 1, then accepted or rejected += 1
BumpBucket(p, key, accepted) ==
    LET b == Bucket(p, key)
        nb == [ total |-> b.total + 1,
                accepted |-> IF accepted = True THEN b.accepted + 1 ELSE b.accepted,
                rejected |-> IF accepted = True THEN b.rejected ELSE b.rejected + 1 ]
    IN  [k \in (DOMAIN p) \cup {key} |-> IF k = key THEN nb ELSE p[k]]

\* "short" if request_words <= 3 else "medium" if request_words <= 6 else "long"
WordRange(user_request) ==
    LET request_words == Len(Split(user_request))
    IN  IF request_words <= 3 THEN StrShort
        ELSE IF request_words <= 6 THEN StrMedium
        ELSE StrLong

\* the pattern table after the decision on command_entry is counted
_update_patterns(p, command_entry) ==
    BumpBucket(
        BumpBucket(p, command_entry.features.command_type, command_entry.accepted),
        WordRange(command_entry.user_request),
        command_entry.accepted)

\* AcceptanceRate without the factor 100
AcceptanceRateFraction(accepted_count, total) ==
    IF total > 0 THEN Rat(accepted_count, total) ELSE Zero

\* (accepted_count / total) * 100 if total > 0 else 0
AcceptanceRate(accepted_count, total) ==
    IF total > 0 THEN Rat(accepted_count * 100, total) ELSE Zero

track_user_decision(tracking_id, accepted, user_feedback, ok) ==
    LET i == DecisionIndex(commands, tracking_id)
    IN  /\ Step
        /\ IF i # 0
           THEN LET command == [commands[i] EXCEPT
                                   !.accepted = PyBool(accepted),
                                   !.user_feedback = user_feedback,
                                   !.decision_timestamp = Some(now)]
                    counted == IF accepted
                               THEN [statistics EXCEPT !.total_accepted = @ + 1]
                               ELSE [statistics EXCEPT !.total_rejected = @ + 1]
                IN  /\ commands' = [commands EXCEPT ![i] = command]
                    /\ statistics' =
                           [counted EXCEPT !.acceptance_rate =
                               AcceptanceRate(counted.total_accepted,
                                              counted.total_suggestions)]
                    /\ patterns' = _update_patterns(patterns, command)
           ELSE UNCHANGED <<commands, statistics, patterns>>
        /\ _save_history(ok, commands', patterns', statistics')
        /\ lastCall' = [op |-> "track_user_decision", tracking_id |-> tracking_id,
                        accepted |-> accepted]
        /\ UNCHANGED <<session_commands, now>>

\* ExecutionIndex that takes accepted records only
ExecutionIndexAcceptedOnly(c, tracking_id) ==
    IF \E i \in 1..Len(c) : c[i].tracking_id = tracking_id /\ c[i].accepted = True
    THEN CHOOSE i \in 1..Len(c) :
            /\ c[i].tracking_id = tracking_id /\ c[i].accepted = True
            /\ \A j \in 1..(i - 1) :
                  ~(c[j].tracking_id = tracking_id /\ c[j].accepted = True)
    ELSE 0

\* the loop of track_execution_result: the record the result is written to
ExecutionIndex(c, tracking_id) == FindIndex(c, tracking_id)

\* output[:1000] if output else None (None and "" are both falsy)
StoredOutput(output) ==
    IF output # NoneOpt /\ output[1] # <<>>
    THEN Some(Take(output[1], OutputLimit))
    ELSE NoneOpt

track_execution_result(tracking_id, success, output, ok) ==
    LET i == ExecutionIndex(commands, tracking_id)
    IN  /\ Step
        /\ IF i # 0
           THEN commands' = [commands EXCEPT ![i] =
                    [@ EXCEPT
                        !.execution_success = PyBool(success),
                        !.execution_output = StoredOutput(output),
                        !.execution_timestamp = Some(now)]]
           ELSE UNCHANGED commands
        /\ _save_history(ok, commands', patterns, statistics)
        /\ lastCall' = [op |-> "track_execution_result", tracking_id |-> tracking_id,
                        success |-> success, output |-> output]
        /\ UNCHANGED <<patterns, statistics, session_commands, now>>

RECURSIVE SelectRecordsNewestFirst(_, _)
\* SelectRecords that returns the records kept in reverse order
SelectRecordsNewestFirst(c, cutoff_date) ==
    IF c = <<>> THEN <<>>
    ELSE IF Head(c).timestamp > cutoff_date
         THEN SelectRecordsNewestFirst(Tail(c), cutoff_date) \o <<Head(c)>>
         ELSE SelectRecordsNewestFirst(Tail(c), cutoff_date)

\* the records of c that satisfy keep, in their order
RECURSIVE SelectRecords(_, _)
SelectRecords(c, cutoff_date) ==
    IF c = <<>> THEN <<>>
    ELSE IF Head(c).timestamp > cutoff_date
         THEN <<Head(c)>> \o SelectRecords(Tail(c), cutoff_date)
         ELSE SelectRecords(Tail(c), cutoff_date)

\* clear_old_data that sets total_suggestions to the number of records kept
ClearAndRecount(days_to_keep, ok) ==
    LET kept == SelectRecords(commands, now - days_to_keep * TicksPerDay)
        removed_count == Len(commands) - Len(kept)
    IN  /\ Step
        /\ commands' = kept
        /\ statistics' = [statistics EXCEPT !.total_suggestions = Len(kept)]
        /\ IF removed_count > 0
           THEN _save_history(ok, kept, patterns, statistics')
           ELSE UNCHANGED file
        /\ lastCall' = [op |-> "clear_old_data", days_to_keep |-> days_to_keep,
                        ret |-> removed_count]
        /\ UNCHANGED <<patterns, session_commands, now>>

clear_old_data(days_to_keep, ok) ==
    LET cutoff_date == now - days_to_keep * TicksPerDay
        original_count == Len(commands)
        kept == SelectRecords(commands, cutoff_date)
        removed_count == original_count - Len(kept)
    IN  /\ Step
        /\ commands' = kept
        /\ IF removed_count > 0
           THEN _save_history(ok, kept, patterns, statistics)
           ELSE UNCHANGED file
        /\ lastCall' = [op |-> "clear_old_data", days_to_keep |-> days_to_keep,
                        ret |-> removed_count]
        /\ UNCHANGED <<patterns, statistics, session_commands, now>>

(* ------------------------------ similarity ----------------------------- *)

\* the feature values that are bool, in the order of the feature dict
BoolFeatures(f) ==
    << f.has_pipes, f.has_redirects, f.has_sudo, f.has_flags,
       f.contains_file_ops, f.contains_system_ops,
       f.contains_network_ops, f.contains_package_ops >>

\* the feature values that are int (command_type, a str, is skipped)
NumFeatures(f) ==
    << f.command_length, f.word_count, f.request_length, f.request_words >>

\* NumSimilarity without the "1 -": the distance instead of the similarity
NumDistance(a, b) ==
    LET max_val == Max2(Max2(Abs(a), Abs(b)), 1)
    IN  Rat(Abs(a - b), max_val)

\* 1 - abs(a - b) / max(abs(a), abs(b), 1)
NumSimilarity(a, b) ==
    LET max_val == Max2(Max2(Abs(a), Abs(b)), 1)
    IN  Rat(max_val - Abs(a - b), max_val)

RECURSIVE RatSum(_)
RatSum(seq) == IF seq = <<>> THEN Zero ELSE RatAdd(Head(seq), RatSum(Tail(seq)))

\* the average of the per-feature contributions, 0 when nothing is comparable
FeatureSimilarity(features, cmd_features) ==
    LET bf == BoolFeatures(features)
        cbf == BoolFeatures(cmd_features)
        nf == NumFeatures(features)
        cnf == NumFeatures(cmd_features)
        bools == [i \in 1..Len(bf) |-> IF bf[i] = cbf[i] THEN One ELSE Zero]
        nums == [i \in 1..Len(nf) |-> NumSimilarity(nf[i], cnf[i])]
        feature_count == Len(bf) + Len(nf)
        feature_similarity == RatAdd(RatSum(bools), RatSum(nums))
    IN  IF feature_count > 0
        THEN RatMul(feature_similarity, Rat(1, feature_count))
        ELSE feature_similarity

\* set(user_request.lower().split())
WordSet(user_request) == ToSet(Split(Lower(user_request)))

\* max(len(request_words), len(cmd_words)): the divisor of word_similarity
WordDivisor(user_request, cmd) ==
    Max2(Cardinality(WordSet(user_request)), Cardinality(WordSet(cmd.user_request)))

\* WordSimilarity over the union of the two word sets instead of the larger
WordSimilarityOverUnion(user_request, cmd) ==
    Rat(Cardinality(WordSet(user_request) \cap WordSet(cmd.user_request)),
        Cardinality(WordSet(user_request) \cup WordSet(cmd.user_request)))

\* word_overlap / max(len(request_words), len(cmd_words)), divisor not 0
WordSimilarity(user_request, cmd) ==
    Rat(Cardinality(WordSet(user_request) \cap WordSet(cmd.user_request)),
        WordDivisor(user_request, cmd))

\* (word_similarity * 0.6) + (feature_similarity * 0.4)
TotalSimilarity(user_request, features, cmd) ==
    RatAdd(RatMul(WordSimilarity(user_request, cmd), Rat(6, 10)),
           RatMul(FeatureSimilarity(features, cmd.features), Rat(4, 10)))

\* total_similarity > 0.3
Threshold == Rat(3, 10)

\* Eligible without the skip of unresolved records
EligibleAlways(cmd) == TRUE

\* if cmd["accepted"] is None: continue
Eligible(cmd) == cmd.accepted # None

RECURSIVE Scored(_, _, _)
\* the loop over history["commands"]: the entries appended to similar
Scored(c, user_request, features) ==
    IF c = <<>> THEN <<>>
    ELSE LET cmd == Head(c)
             rest == Scored(Tail(c), user_request, features)
         IN  IF ~Eligible(cmd) THEN rest
             ELSE LET total_similarity == TotalSimilarity(user_request, features, cmd)
                  IN  IF RatLess(Threshold, total_similarity)
                      THEN <<[cmd |-> cmd, similarity_score |-> total_similarity]>> \o rest
                      ELSE rest

\* e put into the sorted list: after every entry whose score is not smaller
RECURSIVE InsertSorted(_, _)
InsertSorted(sorted, e) ==
    IF sorted = <<>> THEN <<e>>
    ELSE IF RatLess(Head(sorted).similarity_score, e.similarity_score)
         THEN <<e>> \o sorted
         ELSE <<Head(sorted)>> \o InsertSorted(Tail(sorted), e)

\* SortDescending that leaves the entries in list order
Unsorted(sorted, similar) == sorted \o similar

RECURSIVE SortDescending(_, _)
\* similar.sort(key=score, reverse=True): stable, largest first
SortDescending(sorted, similar) ==
    IF similar = <<>> THEN sorted
    ELSE SortDescending(InsertSorted(sorted, Head(similar)), Tail(similar))

\* the division by max(...) raises ZeroDivisionError for some eligible record
RaisesZeroDivision(c, user_request) ==
    \E i \in 1..Len(c) : Eligible(c[i]) /\ WordDivisor(user_request, c[i]) = 0

\* the result of _find_similar_commands: raised, or the list returned
_find_similar_commands(c, user_request, features, limit) ==
    IF RaisesZeroDivision(c, user_request)
    THEN [raised |-> TRUE, ret |-> <<>>]
    ELSE [raised |-> FALSE,
          ret |-> Take(SortDescending(<<>>, Scored(c, user_request, features)), limit)]

\* a call of _find_similar_commands; it changes nothing
find_similar(user_request, features, limit) ==
    /\ Step
    /\ lastCall' = [op |-> "_find_similar_commands",
                    user_request |-> user_request,
                    features |-> features,
                    limit |-> limit,
                    result |-> _find_similar_commands(commands, user_request, features, limit)]
    /\ UNCHANGED <<commands, patterns, statistics, session_commands, file, now>>

\* the lookup as get_suggestion_improvements makes it: the features are those
\* of the current command and the request
FindSimilarCommands ==
    \E r \in QueryRequests, c \in Commands, l \in Limits :
        find_similar(r, _extract_command_features(c, r), l)

(* ------------------------------- queries ------------------------------- *)

\* if len(self.history["commands"]) < 5
MinRecordsForAnalysis == 5

\* accepted_similar[:3]
SimilarShown == 3

\* a call that ended in an exception
Raised(exception) == [raised |-> TRUE, exception |-> exception]

\* the entries of similar_accepted_commands
SimilarAccepted(similar_commands) ==
    LET IsAccepted(e) == e.cmd.accepted = True
        accepted_similar == SelectSeq(similar_commands, IsAccepted)
        shown == Take(accepted_similar, SimilarShown)
    IN  [i \in 1..Len(shown) |->
            [ command |-> shown[i].cmd.suggested_command,
              request |-> shown[i].cmd.user_request,
              success_rate |-> IF shown[i].cmd.execution_success = True
                               THEN One ELSE Zero ]]

\* the result of get_suggestion_improvements; the texts of recommendations
\* and pattern_insights are given by their kind and the values they show
get_suggestion_improvements(c, p, user_request, current_command) ==
    IF Len(c) < MinRecordsForAnalysis
    THEN [ raised |-> FALSE,
           confidence_score |-> Rat(1, 2),
           similar_accepted_commands |-> <<>>,
           pattern_insights |-> <<>>,
           recommendations |-> <<[kind |-> "insufficient_data"]>> ]
    ELSE
    LET current_features == _extract_command_features(current_command, user_request)
        similar_commands ==
            _find_similar_commands(c, user_request, current_features, DefaultLimit)
        cmd_type == current_features.command_type
        counted == cmd_type \in DOMAIN p /\ p[cmd_type].total > 0
        acceptance_rate == Rat(p[cmd_type].accepted, p[cmd_type].total)
        word_range == WordRange(user_request)
    IN  IF similar_commands.raised THEN Raised("ZeroDivisionError")
        ELSE
        [ raised |-> FALSE,
          confidence_score |-> IF counted THEN acceptance_rate ELSE Rat(1, 2),
          similar_accepted_commands |-> SimilarAccepted(similar_commands.ret),
          pattern_insights |->
              IF word_range \in DOMAIN p /\ p[word_range].total > 0
              THEN <<[ kind |-> "range_rate", word_range |-> word_range,
                       rate |-> Rat(p[word_range].accepted, p[word_range].total) ]>>
              ELSE <<>>,
          recommendations |->
              IF counted /\ RatLess(acceptance_rate, Rat(3, 10))
              THEN <<[kind |-> "low_acceptance", cmd_type |-> cmd_type]>>
              ELSE IF counted /\ RatLess(Rat(8, 10), acceptance_rate)
              THEN <<[kind |-> "high_confidence", cmd_type |-> cmd_type]>>
              ELSE <<>> ]

\* timedelta(days=7)
RecentDays == 7

\* command_types.most_common(5)
TopTypes == 5

\* the keys of the Counter command_types
CommandTypes(c) == {c[i].features.command_type : i \in 1..Len(c)} \ {<<>>}

\* the indices of the records of c with this command type
OfType(c, cmd_type) == {i \in 1..Len(c) : c[i].features.command_type = cmd_type}

\* the position of a key in the Counter: where it was first counted
FirstCounted(c, cmd_type) ==
    CHOOSE i \in OfType(c, cmd_type) : \A j \in OfType(c, cmd_type) : i <= j

\* a comes before b in most_common: larger count, then earlier key
MoreCommon(c, a, b) ==
    \/ Cardinality(OfType(c, a)) > Cardinality(OfType(c, b))
    \/ /\ Cardinality(OfType(c, a)) = Cardinality(OfType(c, b))
       /\ FirstCounted(c, a) < FirstCounted(c, b)

\* dict(command_types.most_common(5))
top_command_types(c) ==
    LET top == {k \in CommandTypes(c) :
                    Cardinality({a \in CommandTypes(c) : MoreCommon(c, a, k)}) < TopTypes}
    IN  [k \in top |-> Cardinality(OfType(c, k))]

\* type_commands: the decided records of a command type
TypeCommands(c, cmd_type) == {i \in OfType(c, cmd_type) : c[i].accepted # None}

\* success_rates: (accepted / len(type_commands)) * 100 for the types with
\* a decided record
success_rates_by_type(c) ==
    [k \in {t \in CommandTypes(c) : TypeCommands(c, t) # {}} |->
        Rat(Cardinality({i \in TypeCommands(c, k) : c[i].accepted = True}) * 100,
            Cardinality(TypeCommands(c, k)))]

\* the result of get_statistics at time t
get_statistics(c, s, t) ==
    IF Len(c) = 0 THEN s
    ELSE
    LET recent_cutoff == t - RecentDays * TicksPerDay
        recent_commands == {i \in 1..Len(c) : c[i].timestamp > recent_cutoff}
    IN  [ total_suggestions |-> s.total_suggestions,
          total_accepted |-> s.total_accepted,
          total_rejected |-> s.total_rejected,
          acceptance_rate |-> s.acceptance_rate,
          recent_activity |->
              [ total_suggestions |-> Cardinality(recent_commands),
                accepted |-> Cardinality({i \in recent_commands : c[i].accepted = True}),
                rejected |-> Cardinality({i \in recent_commands : c[i].accepted = False}) ],
          top_command_types |-> top_command_types(c),
          success_rates_by_type |-> success_rates_by_type(c) ]

\* history["statistics"] when get_statistics has filled stats with an alias
\* of it instead of a copy
StatisticsAliased(s, stats) == stats

\* history["statistics"] when get_statistics has filled stats: stats is a
\* copy, the keys added to it are not added to the history
StatisticsAfterCopy(s, stats) == s

\* if len(self.history["commands"]) < 10
MinRecordsForInsights == 10

\* max(success_rates.items(), key=rate): the first largest in dict order
best_type(c, rates) ==
    CHOOSE k \in DOMAIN rates :
        \A j \in (DOMAIN rates) \ {k} :
            \/ RatLess(rates[j], rates[k])
            \/ rates[j] = rates[k] /\ FirstCounted(c, k) < FirstCounted(c, j)

\* min(success_rates.items(), key=rate): the first smallest in dict order
worst_type(c, rates) ==
    CHOOSE k \in DOMAIN rates :
        \A j \in (DOMAIN rates) \ {k} :
            \/ RatLess(rates[k], rates[j])
            \/ rates[j] = rates[k] /\ FirstCounted(c, k) < FirstCounted(c, j)

\* the result of get_insights at time t; each text is given by its kind.
\* With 10 records or more get_statistics has filled in every key.
get_insights(c, s, t) ==
    IF Len(c) < MinRecordsForInsights
    THEN [raised |-> FALSE, ret |-> <<[kind |-> "collecting_data"]>>]
    ELSE
    LET stats == get_statistics(c, s, t)
        acceptance_rate == stats.acceptance_rate
        rates == stats.success_rates_by_type
        recent == stats.recent_activity
        recent_rate == Rat(recent.accepted * 100, recent.total_suggestions)
        overall ==
            IF RatLess(Rat(80, 1), acceptance_rate) THEN "excellent"
            ELSE IF RatLess(Rat(60, 1), acceptance_rate) THEN "good"
            ELSE IF RatLess(Rat(40, 1), acceptance_rate) THEN "moderate"
            ELSE "low"
        best == best_type(c, rates)
        worst == worst_type(c, rates)
    IN  IF DOMAIN rates = {} THEN Raised("ValueError")
        ELSE
        [ raised |-> FALSE,
          ret |->
              <<[kind |-> overall]>>
              \o (IF RatLess(Rat(80, 1), rates[best])
                  THEN <<[kind |-> "works_well", cmd_type |-> best]>> ELSE <<>>)
              \o (IF RatLess(rates[worst], Rat(40, 1))
                  THEN <<[kind |-> "needs_improvement", cmd_type |-> worst]>> ELSE <<>>)
              \o (IF recent.total_suggestions > 0
                  THEN IF RatLess(RatAdd(acceptance_rate, Rat(10, 1)), recent_rate)
                       THEN <<[kind |-> "improving"]>>
                       ELSE IF RatLess(recent_rate, RatAdd(acceptance_rate, Rat(-10, 1)))
                       THEN <<[kind |-> "declining"]>>
                       ELSE <<>>
                  ELSE <<>>) ]

GetSuggestionImprovements ==
    \E user_request \in QueryRequests, current_command \in Commands :
        /\ Step
        /\ lastCall' = [ op |-> "get_suggestion_improvements",
                         user_request |-> user_request,
                         current_command |-> current_command,
                         ret |-> get_suggestion_improvements(
                                     commands, patterns, user_request, current_command) ]
        /\ UNCHANGED <<commands, patterns, statistics, session_commands, file, now>>

GetStatistics ==
    LET stats == get_statistics(commands, statistics, now)
    IN  /\ Step
        /\ statistics' = StatisticsAfterCopy(statistics, stats)
        /\ lastCall' = [op |-> "get_statistics", ret |-> stats]
        /\ UNCHANGED <<commands, patterns, session_commands, file, now>>

GetInsights ==
    /\ Step
    /\ statistics' =
           IF Len(commands) < MinRecordsForInsights THEN statistics
           ELSE StatisticsAfterCopy(statistics,
                                    get_statistics(commands, statistics, now))
    /\ lastCall' = [op |-> "get_insights",
                    result |-> get_insights(commands, statistics, now)]
    /\ UNCHANGED <<commands, patterns, session_commands, file, now>>

\* the result of export_data at time t: the exception of get_insights, or the
\* document written to filepath (a file other than data_file), or the IOError
\* of a failed write
export_data(c, p, s, t, ok) ==
    LET insights == get_insights(c, s, t)
    IN  IF insights.raised THEN insights
        ELSE IF ~ok THEN Raised("IOError")
        ELSE [ raised |-> FALSE,
               written |-> [ export_timestamp |-> t,
                             statistics |-> get_statistics(c, s, t),
                             insights |-> insights.ret,
                             command_history |-> c,
                             patterns |-> p,
                             total_commands |-> Len(c) ] ]

ExportData(W) ==
    \E ok \in W :
        /\ Step
        /\ statistics' = StatisticsAfterCopy(statistics,
                                             get_statistics(commands, statistics, now))
        /\ lastCall' = [op |-> "export_data",
                        result |-> export_data(commands, patterns, statistics, now, ok)]
        /\ UNCHANGED <<commands, patterns, session_commands, file, now>>

(* --------------------- the hash and the features alone ------------------ *)

\* the characters of the enumerated texts
TextChars == {"l", "s", "L", " "}

\* "LS  -LA"
CmdLsUpper == <<"L", "S", " ", " ", "-", "L", "A">>

\* "false"
CmdFalse == <<"f", "a", "l", "s", "e">>

\* "rmdir x"
CmdRmdir == <<"r", "m", "d", "i", "r", " ", "x">>

\* the commands and requests given to the two functions
Texts ==
    UNION {[1..n -> TextChars] : n \in 0..MaxTextLen}
        \cup {CmdLs, CmdLsUpper, CmdFalse, CmdRmdir}

\* a tracker without a file, and two texts to call its functions with
InitPure ==
    /\ commands = <<>>
    /\ patterns = <<>>
    /\ statistics = DefaultStatistics
    /\ session_commands = <<>>
    /\ file = Absent
    /\ now = 0
    /\ calls = 0
    /\ lastCall \in {[op |-> "input", text |-> t, other |-> o] : t \in Texts, o \in Texts}
    /\ frames = 0
    /\ other = NoProcess

\* _extract_command_features(text, other) is called
ExtractCommandFeatures ==
    /\ lastCall.op = "input"
    /\ Step
    /\ lastCall' = [ op |-> "_extract_command_features",
                     command |-> lastCall.text,
                     user_request |-> lastCall.other,
                     ret |-> _extract_command_features(lastCall.text, lastCall.other) ]
    /\ UNCHANGED <<commands, patterns, statistics, session_commands, file, now>>

\* _generate_command_hash is called on the two texts, and on the first again
GenerateCommandHash ==
    /\ lastCall.op = "input"
    /\ Step
    /\ lastCall' = [ op |-> "_generate_command_hash",
                     c1 |-> lastCall.text,
                     c2 |-> lastCall.other,
                     h1 |-> _generate_command_hash(lastCall.text),
                     h2 |-> _generate_command_hash(lastCall.other),
                     again |-> _generate_command_hash(lastCall.text) ]
    /\ UNCHANGED <<commands, patterns, statistics, session_commands, file, now>>

NextPure ==
    \/ ExtractCommandFeatures
    \/ GenerateCommandHash

SpecPure == InitPure /\ [][NextPure]_vars

(* ----------------------- construction over a file ----------------------- *)

\* a data_file whose content json.load rejects
Corrupt == [exists |-> TRUE, parses |-> FALSE]

\* json.load succeeds on the document f
Parses(f) == f.exists /\ "commands" \in DOMAIN f

\* k suggestions an earlier tracker has stored in one second, undecided
StoredRecords(k) ==
    [i \in 1..k |->
        NewCommandEntry(NewTrackingId(0, [j \in 1..(i - 1) |-> j]), 0,
                        ReqListFiles, CmdLs, "test_model", "macOS")]

\* the document that tracker has left in data_file
StoredDocument(k) ==
    History(StoredRecords(k), <<>>, [DefaultStatistics EXCEPT !.total_suggestions = k])

\* the data_file a tracker can be constructed over: none, an unreadable one,
\* and documents with one record less than each query asks for
StoredFiles ==
    { Absent, Corrupt,
      StoredDocument(MinRecordsForAnalysis - 1),
      StoredDocument(MinRecordsForInsights - 1) }

\* what _load_history returns for a data_file that is absent or parses
Loaded(f) ==
    IF Parses(f)
    THEN [commands |-> f.commands, patterns |-> f.patterns, statistics |-> f.statistics]
    ELSE [commands |-> <<>>, patterns |-> <<>>, statistics |-> DefaultStatistics]

\* __init__ has called _load_history over one of the files
InitSession ==
    /\ commands = <<>>
    /\ patterns = <<>>
    /\ statistics = DefaultStatistics
    /\ session_commands = <<>>
    /\ file \in StoredFiles
    /\ now = 0
    /\ calls = 0
    /\ lastCall = NoCall
    /\ frames = 1
    /\ other = NoProcess

\* the innermost call of _load_history runs: it returns through every
\* caller, or, on a file that does not parse, calls itself
_load_history ==
    /\ frames >= 1
    /\ IF ~file.exists \/ Parses(file)
       THEN /\ commands' = Loaded(file).commands
            /\ patterns' = Loaded(file).patterns
            /\ statistics' = Loaded(file).statistics
            /\ frames' = 0
       ELSE /\ frames < MaxFrames
            /\ frames' = frames + 1
            /\ UNCHANGED <<commands, patterns, statistics>>
    /\ UNCHANGED <<session_commands, file, now, calls, lastCall, other>>

(* --------------------- two processes on one data_file -------------------- *)

\* the memory of a tracker process that is not the one taking steps
Process(c, p, s, sc) ==
    [running |-> TRUE, commands |-> c, patterns |-> p, statistics |-> s,
     session_commands |-> sc]

\* a second process constructs its tracker over the same data_file
StartOther ==
    /\ frames = 0
    /\ other = NoProcess
    /\ other' = Process(Loaded(file).commands, Loaded(file).patterns,
                        Loaded(file).statistics, <<>>)
    /\ UNCHANGED <<commands, patterns, statistics, session_commands, file, now,
                   calls, lastCall, frames>>

\* the other process is the one that makes the next calls
SwitchProcess ==
    /\ frames = 0
    /\ other # NoProcess
    /\ commands' = other.commands
    /\ patterns' = other.patterns
    /\ statistics' = other.statistics
    /\ session_commands' = other.session_commands
    /\ other' = Process(commands, patterns, statistics, session_commands)
    /\ lastCall' = NoCall
    /\ UNCHANGED <<file, now, calls, frames>>

(* -------------------------------- clock -------------------------------- *)

\* the clock moves on by one tick
Tick ==
    /\ Step
    /\ now % TicksPerDay < MaxSubTicks
    /\ now' = now + 1
    /\ lastCall' = NoCall
    /\ UNCHANGED <<commands, patterns, statistics, session_commands, file>>

\* the clock moves on by one day
DayPasses ==
    /\ Step
    /\ now \div TicksPerDay < MaxDays
    /\ now' = now + TicksPerDay
    /\ lastCall' = NoCall
    /\ UNCHANGED <<commands, patterns, statistics, session_commands, file>>

TrackSuggestion(W) ==
    \E s \in Suggestions, m \in Models, si \in SystemInfos, ok \in W :
        track_suggestion(s[1], s[2], m, si, ok)

TrackUserDecision(W) ==
    \E id \in KnownIds, a \in BOOLEAN, fb \in Feedbacks, ok \in W :
        track_user_decision(id, a, fb, ok)

TrackExecutionResult(W) ==
    \E id \in KnownIds, s \in BOOLEAN, o \in Outputs, ok \in W :
        track_execution_result(id, s, o, ok)

ClearOldData(W) ==
    \E d \in DaysToKeep, ok \in W : clear_old_data(d, ok)

Next ==
    \/ TrackSuggestion(WritesSucceed)
    \/ TrackUserDecision(WritesSucceed)
    \/ TrackExecutionResult(WritesSucceed)
    \/ ClearOldData(WritesSucceed)
    \/ Tick
    \/ DayPasses

Spec == Init /\ [][Next]_vars

\* only suggestions are tracked, at any times
NextSuggest ==
    \/ TrackSuggestion(WritesSucceed)
    \/ Tick
    \/ DayPasses

SpecSuggest == Init /\ [][NextSuggest]_vars

\* suggestions, decisions and lookups of similar commands
NextSimilar ==
    \/ TrackSuggestion(WritesSucceed)
    \/ TrackUserDecision(WritesSucceed)
    \/ FindSimilarCommands

SpecSimilar == Init /\ [][NextSimilar]_vars

TrackTypedSuggestion(W) ==
    \E s \in TypedSuggestions, m \in Models, si \in SystemInfos, ok \in W :
        track_suggestion(s[1], s[2], m, si, ok)

\* suggestions of several command types, decisions and cleanups
NextPatterns ==
    \/ TrackTypedSuggestion(WritesSucceed)
    \/ TrackUserDecision(WritesSucceed)
    \/ ClearOldData(WritesSucceed)

SpecPatterns == Init /\ [][NextPatterns]_vars

\* every operation of the tracker, from an empty store
NextAll ==
    \/ TrackSuggestion(WritesSucceed)
    \/ TrackUserDecision(WritesSucceed)
    \/ TrackExecutionResult(WritesSucceed)
    \/ ClearOldData(WritesSucceed)
    \/ GetSuggestionImprovements
    \/ GetStatistics
    \/ GetInsights
    \/ ExportData(WritesSucceed)
    \/ Tick
    \/ DayPasses

SpecAll == Init /\ [][NextAll]_vars

\* a tracker constructed over a file, then used with its queries
NextSession ==
    \/ _load_history
    \/ TrackSuggestion(WritesSucceed)
    \/ TrackUserDecision(WritesSucceed)
    \/ ClearOldData(WritesSucceed)
    \/ GetSuggestionImprovements
    \/ GetStatistics
    \/ GetInsights
    \/ DayPasses

SpecSession == InitSession /\ [][NextSession]_vars

\* two trackers on one data_file, their calls interleaved
NextShared ==
    \/ TrackSuggestion(WritesSucceed)
    \/ TrackUserDecision(WritesSucceed)
    \/ StartOther
    \/ SwitchProcess

SpecShared == Init /\ [][NextShared]_vars

(* ------------------------------- claims -------------------------------- *)

\* rate is the fraction accepted / total * 100, and 0 when total is 0
RateIs(rate, accepted, total) ==
    IF total = 0 THEN rate.n = 0
    ELSE rate.n * total = accepted * 100 * rate.d

\* no value occurs twice in seq
NoDuplicates(seq) ==
    \A i, j \in 1..Len(seq) : i # j => seq[i] # seq[j]

\* the tracking ids of the stored records, in order
StoredIds == [i \in 1..Len(commands) |-> commands[i].tracking_id]

\* some stored record carries this id
IsStored(c, tracking_id) == \E i \in 1..Len(c) : c[i].tracking_id = tracking_id

\* C1: in every reachable state acceptance_rate equals
\* total_accepted / total_suggestions * 100 (0 when total_suggestions is 0),
\* also right after a track_suggestion that follows a decision.
C1_RateAlwaysRecomputed ==
    RateIs(statistics.acceptance_rate,
           statistics.total_accepted, statistics.total_suggestions)

\* C2: when only track_suggestion is called, the returned tracking ids are
\* pairwise distinct, no two stored records share an id, and each record
\* carries the id that its call returned.
C2_SuggestionIdsDistinct ==
    /\ NoDuplicates(session_commands)
    /\ NoDuplicates(StoredIds)
    /\ StoredIds = session_commands

\* C2 witness: two suggestions tracked within one clock second
C2_Witness ==
    /\ lastCall.op = "track_suggestion"
    /\ Len(commands) >= 2
    /\ commands[1].tracking_id[1] = commands[2].tracking_id[1]

\* C3: with cleanup between suggestions, track_suggestion never returns an
\* id that an earlier record had (stored or removed), and no two stored
\* records share an id.
C3_IdNeverReused ==
    /\ \A i, j \in 1..Len(session_commands) :
          i < j => session_commands[j] # session_commands[i]
    /\ \A i, j \in 1..Len(commands) :
          i < j => commands[j].tracking_id # commands[i].tracking_id

\* C4: a decision that is resolved never changes again: in every step that
\* keeps the list's length, a record that was Accepted or Rejected keeps
\* its decision.
C4_DecisionSetOnce ==
    [][Len(commands') = Len(commands) =>
          \A i \in 1..Len(commands) :
              commands[i].accepted # None =>
                  commands'[i].accepted = commands[i].accepted]_vars

\* the counters of bucket key in table p, zero when the key is absent
Counters(p, key) ==
    IF key \in DOMAIN p THEN p[key] ELSE [accepted |-> 0, rejected |-> 0, total |-> 0]

\* how often key is among the two bucket keys of record r
KeyHits(r, key) ==
    (IF r.features.command_type = key THEN 1 ELSE 0)
    + (IF WordRange(r.user_request) = key THEN 1 ELSE 0)

\* C5: a track_user_decision for a record that is already resolved is
\* accepted: it overwrites the decision and increments total_accepted or
\* total_rejected and the record's two buckets once more, leaving the
\* earlier increments in place.
C5_RepeatDecisionCountsAgain ==
    [][\A i \in 1..Len(commands) :
          ( /\ calls' = calls + 1
            /\ lastCall'.op = "track_user_decision"
            /\ commands[i].tracking_id = lastCall'.tracking_id
            /\ \A j \in 1..(i - 1) : commands[j].tracking_id # lastCall'.tracking_id
            /\ commands[i].accepted # None )
          =>
          LET a == lastCall'.accepted
              da == IF a THEN 1 ELSE 0
              dr == IF a THEN 0 ELSE 1
          IN  /\ Len(commands') = Len(commands)
              /\ commands'[i].accepted = PyBool(a)
              /\ statistics'.total_accepted = statistics.total_accepted + da
              /\ statistics'.total_rejected = statistics.total_rejected + dr
              /\ statistics'.total_suggestions = statistics.total_suggestions
              /\ \A key \in (DOMAIN patterns) \cup (DOMAIN patterns') :
                    LET h == KeyHits(commands[i], key)
                    IN  /\ Counters(patterns', key).total
                              = Counters(patterns, key).total + h
                        /\ Counters(patterns', key).accepted
                              = Counters(patterns, key).accepted + h * da
                        /\ Counters(patterns', key).rejected
                              = Counters(patterns, key).rejected + h * dr
              /\ KeyHits(commands[i], commands[i].features.command_type) >= 1
              /\ commands[i].features.command_type \in DOMAIN patterns'
              /\ WordRange(commands[i].user_request) \in DOMAIN patterns'
      ]_vars

\* C5 witness: the only suggestion ever tracked has been decided twice
C5_Witness ==
    /\ lastCall.op = "track_user_decision"
    /\ statistics.total_suggestions = 1
    /\ statistics.total_accepted + statistics.total_rejected = 2
    /\ Len(commands) = 1
    /\ patterns[StrShort].total = 2

\* C6: right after a track_user_decision that matches a record,
\* acceptance_rate = total_accepted / total_suggestions * 100; from the empty
\* store, one suggestion and an acceptance give total_accepted = 1 and rate
\* 100, and a second suggestion and a rejection give 1, 1 and rate 50.
C6_RateAfterDecision ==
    ( /\ lastCall.op = "track_user_decision"
      /\ IsStored(commands, lastCall.tracking_id) )
    =>
    /\ RateIs(statistics.acceptance_rate,
              statistics.total_accepted, statistics.total_suggestions)
    /\ ( /\ calls = 2
         /\ lastCall.accepted )
       => /\ statistics.total_accepted = 1
          /\ statistics.acceptance_rate = [n |-> 100, d |-> 1]
    /\ ( /\ calls = 4
         /\ Len(commands) = 2
         /\ commands[1].accepted = True
         /\ commands[2].accepted = False
         /\ lastCall.tracking_id = commands[2].tracking_id
         /\ ~lastCall.accepted )
       => /\ statistics.total_accepted = 1
          /\ statistics.total_rejected = 1
          /\ statistics.acceptance_rate = [n |-> 50, d |-> 1]

\* C6 witness: the second record has just been rejected after the first was
\* accepted
C6_Witness ==
    /\ lastCall.op = "track_user_decision"
    /\ calls = 4
    /\ Len(commands) = 2
    /\ commands[1].accepted = True
    /\ commands[2].accepted = False
    /\ lastCall.tracking_id = commands[2].tracking_id
    /\ statistics.acceptance_rate = [n |-> 50, d |-> 1]

\* C7: track_user_decision and track_execution_result with an id that no
\* stored record carries change no record, no counter, not the rate and not
\* the pattern table.
C7_UnknownIdIsNoOp ==
    [][( /\ calls' = calls + 1
         /\ lastCall'.op \in {"track_user_decision", "track_execution_result"}
         /\ ~IsStored(commands, lastCall'.tracking_id) )
       => /\ commands' = commands
          /\ statistics' = statistics
          /\ patterns' = patterns
      ]_vars

\* C7 witness: a decision for an id that is not stored, made while the
\* store holds a record and counted decisions
C7_Witness ==
    /\ lastCall.op = "track_user_decision"
    /\ ~IsStored(commands, lastCall.tracking_id)
    /\ Len(commands) >= 1
    /\ statistics.total_accepted >= 1

\* the most recent call is a lookup of similar commands that returned
Looked == lastCall.op = "_find_similar_commands" /\ ~lastCall.result.raised

\* the list the most recent lookup returned
Returned == lastCall.result.ret

\* the score of stored record i for the most recent lookup
ScoreOf(i) == TotalSimilarity(lastCall.user_request, lastCall.features, commands[i])

\* the resolved records
Resolved == {i \in 1..Len(commands) : commands[i].accepted # None}

\* the resolved records that score above 0.3 for the most recent lookup
Passing == {i \in Resolved : RatLess([n |-> 3, d |-> 10], ScoreOf(i))}

\* C8: no record whose decision is Pending is in the list that
\* _find_similar_commands returns.
C8_NoPendingReturned ==
    Looked => \A k \in 1..Len(Returned) : Returned[k].cmd.accepted # None

\* C8 witness: a lookup returned a record while a Pending record with the
\* same request, which has words, is stored
C8_Witness ==
    /\ Looked
    /\ Len(Returned) >= 1
    /\ \E i \in 1..Len(commands) :
          /\ commands[i].accepted = None
          /\ commands[i].user_request = lastCall.user_request
          /\ WordSet(lastCall.user_request) # {}

\* C9: _find_similar_commands returns the resolved records that score
\* above 0.3, largest score first, cut to limit: at most limit entries, each
\* a different passing record with its score, in non-increasing order of
\* score, as many as pass (up to limit), and no passing record left out
\* scores higher than one returned.
C9_ReturnsBestAboveThreshold ==
    Looked =>
    /\ Len(Returned) <= lastCall.limit
    /\ Len(Returned) = IF Cardinality(Passing) <= lastCall.limit
                       THEN Cardinality(Passing) ELSE lastCall.limit
    /\ \A k \in 1..(Len(Returned) - 1) :
          ~RatLess(Returned[k].similarity_score, Returned[k + 1].similarity_score)
    /\ \E f \in [1..Len(Returned) -> Passing] :
          /\ \A k, l \in 1..Len(Returned) : k # l => f[k] # f[l]
          /\ \A k \in 1..Len(Returned) :
                /\ Returned[k].cmd = commands[f[k]]
                /\ Returned[k].similarity_score = ScoreOf(f[k])
                /\ RatLess([n |-> 3, d |-> 10], Returned[k].similarity_score)
          /\ \A i \in Passing \ {f[k] : k \in 1..Len(Returned)} :
                \A k \in 1..Len(Returned) :
                    ~RatLess(Returned[k].similarity_score, ScoreOf(i))

\* C9 witness: a lookup with limit 1 for which two records pass, the later
\* one with the higher score, so that the sort and the cut both matter
C9_Witness ==
    /\ Looked
    /\ lastCall.limit = 1
    /\ Len(Returned) = 1
    /\ \E i, j \in Passing : i < j /\ RatLess(ScoreOf(i), ScoreOf(j))

\* the most recent lookup asked for record i itself: its request and its
\* feature vector
AskedForItself(i) ==
    /\ lastCall.op = "_find_similar_commands"
    /\ i \in Resolved
    /\ lastCall.user_request = commands[i].user_request
    /\ lastCall.features = commands[i].features

\* what C10 says of a lookup that asked for record i itself
SelfLookup(i) ==
    /\ ~lastCall.result.raised
    /\ ScoreOf(i) = [n |-> 1, d |-> 1]
    /\ Len(Returned) >= 1
    /\ Returned[1].similarity_score = [n |-> 1, d |-> 1]
    /\ Cardinality(Resolved) <= lastCall.limit =>
          \E k \in 1..Len(Returned) : Returned[k].cmd = commands[i]

OnlyListFilesAccepted ==
    /\ Len(commands) = 1
    /\ commands[1].user_request = ReqListFiles
    /\ commands[1].suggested_command = CmdLs
    /\ commands[1].accepted = True

\* C11: with the one resolved record "list files" / "ls -la" / Accepted, a
\* lookup for "show files" computes word similarity 1/2 (one common word
\* of two), the combined score 0.6 * 1/2 + 0.4 * feature similarity is
\* above 0.3, and the record is returned.
C11_ShowFilesFindsListFiles ==
    ( /\ lastCall.op = "_find_similar_commands"
      /\ lastCall.user_request = ReqShowFiles
      /\ OnlyListFilesAccepted )
    =>
    /\ ~lastCall.result.raised
    /\ WordSet(ReqShowFiles) \cap WordSet(commands[1].user_request)
          = {<<"f", "i", "l", "e", "s">>}
    /\ WordSimilarity(lastCall.user_request, commands[1]) = [n |-> 1, d |-> 2]
    /\ Len(Returned) = 1
    /\ Returned[1].cmd = commands[1]
    /\ Returned[1].similarity_score =
          RatAdd([n |-> 3, d |-> 10],
                 RatMul([n |-> 2, d |-> 5],
                        FeatureSimilarity(lastCall.features, commands[1].features)))
    /\ RatLess([n |-> 3, d |-> 10], Returned[1].similarity_score)

\* C11 witness: "show files" was looked up in the store of the scenario
C11_Witness ==
    /\ lastCall.op = "_find_similar_commands"
    /\ lastCall.user_request = ReqShowFiles
    /\ OnlyListFilesAccepted
    /\ Len(Returned) = 1

\* C12: when the request looked up and the request of a resolved record
\* both have no words, the lookup completes normally (word similarity 0);
\* it does not fail with a division by zero.
C12_EmptyRequestsComplete ==
    ( /\ lastCall.op = "_find_similar_commands"
      /\ WordSet(lastCall.user_request) = {}
      /\ \E i \in Resolved : WordSet(commands[i].user_request) = {} )
    => ~lastCall.result.raised

\* the index of the first record of c with this id, 0 if there is none
FirstWithId(c, tracking_id) ==
    IF IsStored(c, tracking_id)
    THEN CHOOSE i \in 1..Len(c) :
            /\ c[i].tracking_id = tracking_id
            /\ \A j \in 1..(i - 1) : c[j].tracking_id # tracking_id
    ELSE 0

RECURSIVE NotOlderThan(_, _)
\* the records of c whose timestamp is the cutoff or later, in their order
NotOlderThan(c, cutoff) ==
    IF c = <<>> THEN <<>>
    ELSE IF Head(c).timestamp >= cutoff
         THEN <<Head(c)>> \o NotOlderThan(Tail(c), cutoff)
         ELSE NotOlderThan(Tail(c), cutoff)

\* C14: clear_old_data(days) removes exactly the records strictly older
\* than now - days, keeps every other record (one at the cutoff included)
\* in order, and returns the number removed.
C14_CleanupRemovesStrictlyOlder ==
    [][( /\ calls' = calls + 1
         /\ lastCall'.op = "clear_old_data" )
       => /\ commands' =
                NotOlderThan(commands, now - lastCall'.days_to_keep * TicksPerDay)
          /\ lastCall'.ret = Len(commands) - Len(commands')
      ]_vars

\* C15: track_execution_result applies to a record in any decision state;
\* it sets that record's execution_success, execution_output and
\* execution_timestamp and nothing else: the decision, every other field,
\* every other record, the statistics and the patterns stay as they were.
C15_ExecutionIndependentOfDecision ==
    [][( /\ calls' = calls + 1
         /\ lastCall'.op = "track_execution_result"
         /\ IsStored(commands, lastCall'.tracking_id) )
       => LET i == FirstWithId(commands, lastCall'.tracking_id)
          IN  /\ Len(commands') = Len(commands)
              /\ \A j \in 1..Len(commands) : j # i => commands'[j] = commands[j]
              /\ commands'[i].execution_success = PyBool(lastCall'.success)
              /\ commands'[i].execution_timestamp = Some(now)
              /\ commands'[i] =
                    [commands[i] EXCEPT
                        !.execution_success = commands'[i].execution_success,
                        !.execution_output = commands'[i].execution_output,
                        !.execution_timestamp = commands'[i].execution_timestamp]
              /\ commands'[i].accepted = commands[i].accepted
              /\ statistics' = statistics
              /\ patterns' = patterns
      ]_vars

\* C15 witness: an execution result was recorded on a record that is
\* still Pending, in a store with counted decisions
C15_Witness ==
    /\ lastCall.op = "track_execution_result"
    /\ IsStored(commands, lastCall.tracking_id)
    /\ LET i == FirstWithId(commands, lastCall.tracking_id)
       IN  /\ commands[i].accepted = None
           /\ commands[i].execution_success # None
    /\ statistics.total_accepted + statistics.total_rejected >= 1

\* C16: after track_execution_result with an output string on a matching
\* record, the stored execution_output is the first 1000 characters of the
\* output: 1000 long for a longer output, the output itself otherwise, the
\* empty string included.
C16_OutputTruncated ==
    [][( /\ calls' = calls + 1
         /\ lastCall'.op = "track_execution_result"
         /\ IsStored(commands, lastCall'.tracking_id)
         /\ lastCall'.output # NoneOpt )
       => LET i == FirstWithId(commands, lastCall'.tracking_id)
              output == lastCall'.output[1]
              stored == commands'[i].execution_output
          IN  /\ stored # NoneOpt
              /\ IF Len(output) > 1000
                 THEN Len(stored[1]) = 1000 /\ stored[1] = SubSeq(output, 1, 1000)
                 ELSE stored[1] = output
      ]_vars

\* C13: the confidence score get_suggestion_improvements reports is
\* accepted/total of the bucket of the command's first token when that
\* bucket has total > 0, and 0.5 otherwise, in stores of any size; it lies
\* within [0, 1].
C13_ConfidenceFromBucket ==
    ( /\ lastCall.op = "get_suggestion_improvements"
      /\ ~lastCall.ret.raised )
    => LET cmd_type == _extract_command_features(
                           lastCall.current_command, lastCall.user_request).command_type
           score == lastCall.ret.confidence_score
       IN  /\ IF cmd_type \in DOMAIN patterns /\ patterns[cmd_type].total > 0
              THEN score.n * patterns[cmd_type].total
                       = patterns[cmd_type].accepted * score.d
              ELSE score.n * 2 = score.d
           /\ 0 <= score.n /\ score.n <= score.d

\* C17: get_insights returns the single 'collecting data' message exactly
\* when statistics.total_suggestions is below 10, also after clear_old_data
\* has left fewer than 10 records of 10 or more suggestions.
C17_CollectingIffFewSuggestions ==
    lastCall.op = "get_insights"
    => ( ( /\ ~lastCall.result.raised
           /\ lastCall.result.ret = <<[kind |-> "collecting_data"]>> )
         <=> statistics.total_suggestions < 10 )

\* C18: get_suggestion_improvements, get_statistics and get_insights leave
\* the records, the pattern table, the statistics and the persisted
\* document as they were.
C18_QueriesReadOnly ==
    [][( /\ calls' = calls + 1
         /\ lastCall'.op \in {"get_suggestion_improvements", "get_statistics",
                              "get_insights"} )
       => /\ commands' = commands
          /\ patterns' = patterns
          /\ statistics' = statistics
          /\ file' = file
      ]_vars

\* C18 witness: get_insights has gone through get_statistics on a store of
\* 10 records with counted decisions and a persisted document
C18_Witness ==
    /\ lastCall.op = "get_insights"
    /\ ~lastCall.result.raised
    /\ lastCall.result.ret[1].kind # "collecting_data"
    /\ Len(commands) >= 10
    /\ DOMAIN patterns # {}
    /\ Parses(file)

\* C19: on a data_file that exists and does not parse, _load_history makes
\* at most one recovery attempt: the first call and one retry.
C19_OneRecoveryAttempt ==
    frames <= 2

\* the records of c, as a set
Records(c) == {c[i] : i \in 1..Len(c)}

\* C20: with two processes on one data_file, each saving call writes the
\* caller's whole history over the document, so that a record only the other
\* process holds is not in the document afterwards.
C20_LaterWriterOverwrites ==
    [][( /\ calls' = calls + 1
         /\ lastCall'.op \in {"track_suggestion", "track_user_decision"} )
       => /\ file' = History(commands', patterns', statistics')
          /\ other.running =>
                \A r \in Records(other.commands) \ Records(commands') :
                    r \notin Records(file'.commands)
      ]_vars

\* C20 witness: a lost update. Both processes have handed out the same
\* tracking id; the other process has stored a record under it, and the
\* document, written last by this process, does not hold that record
C20_Witness ==
    /\ other.running
    /\ file = History(commands, patterns, statistics)
    /\ \E id \in ToSet(session_commands) \cap ToSet(other.session_commands) :
          \E r \in Records(other.commands) :
              /\ r.tracking_id = id
              /\ r \notin Records(file.commands)

\* the counters of bucket key after one more decision a is counted in it
Bumped(b, a) ==
    [ total |-> b.total + 1,
      accepted |-> IF a THEN b.accepted + 1 ELSE b.accepted,
      rejected |-> IF a THEN b.rejected ELSE b.rejected + 1 ]

\* C21: a track_user_decision that matches a record increments by exactly
\* one the total and the accepted or rejected counter of the bucket of the
\* record's command type and of the bucket of its request-length class, and
\* changes no other bucket, whatever the command type is ("" and "short"
\* included).
C21_EachBucketBumpedOnce ==
    [][( /\ calls' = calls + 1
         /\ lastCall'.op = "track_user_decision"
         /\ IsStored(commands, lastCall'.tracking_id) )
       => LET r == commands[FirstWithId(commands, lastCall'.tracking_id)]
              keys == {r.features.command_type, WordRange(r.user_request)}
          IN  /\ \A k \in keys :
                    /\ k \in DOMAIN patterns'
                    /\ patterns'[k] = Bumped(Counters(patterns, k), lastCall'.accepted)
              /\ DOMAIN patterns' = (DOMAIN patterns) \cup keys
              /\ \A k \in (DOMAIN patterns) \ keys : patterns'[k] = patterns[k]
      ]_vars

\* C29: from an empty store on, every bucket of the pattern table has
\* accepted + rejected = total, its three counters are not negative, and no
\* step removes a bucket or lowers one of its counters.
C29_BucketsBalanced ==
    [][ /\ \A k \in DOMAIN patterns' :
              /\ patterns'[k].accepted + patterns'[k].rejected = patterns'[k].total
              /\ patterns'[k].accepted >= 0
              /\ patterns'[k].rejected >= 0
              /\ patterns'[k].total >= 0
        /\ \A k \in DOMAIN patterns :
              /\ k \in DOMAIN patterns'
              /\ patterns'[k].accepted >= patterns[k].accepted
              /\ patterns'[k].rejected >= patterns[k].rejected
              /\ patterns'[k].total >= patterns[k].total
      ]_vars

\* C29 witness: decisions of both kinds are counted, one bucket has counted
\* a decision twice, and a cleanup has removed the records counted
C29_Witness ==
    /\ StrShort \in DOMAIN patterns
    /\ patterns[StrShort].accepted >= 1
    /\ patterns[StrShort].rejected >= 1
    /\ \E k \in DOMAIN patterns : patterns[k].total < patterns[StrShort].total
    /\ commands = <<>>

\* C23: when writes succeed, after every track_suggestion,
\* track_user_decision, track_execution_result and every clear_old_data that
\* removed a record, the document in data_file holds the commands, patterns
\* and statistics of the memory, and a tracker that loads it gets the same.
C23_DocumentEqualsMemory ==
    [][( /\ calls' = calls + 1
         /\ \/ lastCall'.op \in {"track_suggestion", "track_user_decision",
                                 "track_execution_result"}
            \/ lastCall'.op = "clear_old_data" /\ lastCall'.ret > 0 )
       => /\ file'.exists
          /\ file'.commands = commands'
          /\ file'.patterns = patterns'
          /\ file'.statistics = statistics'
          /\ Loaded(file') = [ commands |-> commands', patterns |-> patterns',
                               statistics |-> statistics' ]
      ]_vars

\* C23 witness: a cleanup that removed a record has written the document;
\* records are left and decisions have been counted
C23_Witness ==
    /\ lastCall.op = "clear_old_data"
    /\ lastCall.ret > 0
    /\ commands # <<>>
    /\ DOMAIN patterns # {}
    /\ file.exists
    /\ file.commands = commands

\* C27: from an empty store on, total_accepted + total_rejected is at most
\* total_suggestions and acceptance_rate is within [0, 100].
C27_DecisionsAtMostSuggestions ==
    /\ statistics.total_accepted + statistics.total_rejected
           <= statistics.total_suggestions
    /\ 0 <= statistics.acceptance_rate.n
    /\ statistics.acceptance_rate.n <= 100 * statistics.acceptance_rate.d

\* C30: clear_old_data leaves the statistics as they are; from an empty
\* store on, total_suggestions is at least the number of stored records and
\* no step lowers total_suggestions, total_accepted or total_rejected.
C30_CleanupKeepsStatistics ==
    [][ /\ (calls' = calls + 1 /\ lastCall'.op = "clear_old_data")
            => statistics' = statistics
        /\ statistics'.total_suggestions >= Len(commands')
        /\ statistics'.total_suggestions >= statistics.total_suggestions
        /\ statistics'.total_accepted >= statistics.total_accepted
        /\ statistics'.total_rejected >= statistics.total_rejected
      ]_vars

\* C30 witness: a cleanup has removed records of a store with counted
\* decisions of both kinds; fewer records are left than were suggested
C30_Witness ==
    /\ lastCall.op = "clear_old_data"
    /\ lastCall.ret > 0
    /\ statistics.total_suggestions > Len(commands)
    /\ statistics.total_accepted >= 1
    /\ statistics.total_rejected >= 1

\* C28: with 10 stored records or more, get_insights returns a list of
\* messages and does not raise, also when no record is decided, so that no
\* command type has a success rate.
C28_InsightsNeverRaise ==
    ( /\ lastCall.op = "get_insights"
      /\ Len(commands) >= 10 )
    => /\ ~lastCall.result.raised
       /\ Len(lastCall.result.ret) >= 1

\* C22: the pattern table changes only in a track_user_decision that
\* matches a record; track_suggestion, track_execution_result,
\* clear_old_data, export_data and the queries leave every bucket as it is.
C22_PatternsChangeOnlyOnDecision ==
    [][ patterns' # patterns
        => /\ calls' = calls + 1
           /\ lastCall'.op = "track_user_decision"
           /\ IsStored(commands, lastCall'.tracking_id)
      ]_vars

\* C22 witness: the table still counts a decision whose record a cleanup
\* has removed, and export_data has run on that store
C22_Witness ==
    /\ lastCall.op = "export_data"
    /\ ~lastCall.result.raised
    /\ commands = <<>>
    /\ \E k \in DOMAIN patterns : patterns[k].total >= 1

\* the fields of a record that are assigned at creation
Immutable(r) ==
    [ tracking_id |-> r.tracking_id,
      timestamp |-> r.timestamp,
      user_request |-> r.user_request,
      suggested_command |-> r.suggested_command,
      model_used |-> r.model_used,
      system_info |-> r.system_info,
      command_hash |-> r.command_hash,
      features |-> r.features ]

RECURSIVE IsSubsequence(_, _)
\* a is b with some elements removed
IsSubsequence(a, b) ==
    IF a = <<>> THEN TRUE
    ELSE IF b = <<>> THEN FALSE
    ELSE IF Head(a) = Head(b) THEN IsSubsequence(Tail(a), Tail(b))
    ELSE IsSubsequence(a, Tail(b))

\* C24: every step keeps the creation fields of every record; records are
\* only appended at the end of the list, or removed whole by clear_old_data,
\* which keeps the order of the records that remain.
C24_CreationFieldsFixed ==
    [][ \/ /\ Len(commands') = Len(commands)
           /\ \A i \in 1..Len(commands) :
                 Immutable(commands'[i]) = Immutable(commands[i])
        \/ /\ Len(commands') = Len(commands) + 1
           /\ lastCall'.op = "track_suggestion"
           /\ SubSeq(commands', 1, Len(commands)) = commands
        \/ /\ Len(commands') < Len(commands)
           /\ lastCall'.op = "clear_old_data"
           /\ IsSubsequence(commands', commands)
      ]_vars

\* C24 witness: a cleanup has removed a record and left a decided one
C24_Witness ==
    /\ lastCall.op = "clear_old_data"
    /\ lastCall.ret >= 1
    /\ commands # <<>>
    /\ commands[1].accepted # None

\* some whitespace-delimited token of the command, lowercased, is in words
TokenIn(words, command) == \E token \in ToSet(Split(Lower(command))) : token \in words

\* C25: each categorical boolean of the features is true exactly when a
\* whitespace-delimited token of the command, compared without case, is in
\* the keyword set; a keyword inside a longer token does not set it.
C25_FlagsByToken ==
    lastCall.op = "_extract_command_features"
    => /\ lastCall.ret.contains_file_ops <=> TokenIn(FileOps, lastCall.command)
       /\ lastCall.ret.contains_system_ops <=> TokenIn(SystemOps, lastCall.command)
       /\ lastCall.ret.contains_network_ops <=> TokenIn(NetworkOps, lastCall.command)
       /\ lastCall.ret.contains_package_ops <=> TokenIn(PackageOps, lastCall.command)

RECURSIVE CollapseRuns(_)
\* every run of whitespace of s replaced by a single space
CollapseRuns(s) ==
    IF s = <<>> THEN <<>>
    ELSE IF IsSpace(Head(s))
         THEN IF Len(s) > 1 /\ IsSpace(s[2])
              THEN CollapseRuns(Tail(s))
              ELSE <<" ">> \o CollapseRuns(Tail(s))
         ELSE <<Head(s)>> \o CollapseRuns(Tail(s))

\* C26 as stated: two commands have the same hash exactly when their
\* lowercased texts with every run of whitespace collapsed to one space are
\* equal; a repeated call gives the same hash; "LS  -LA" and "ls -la" have
\* the same hash.
C26_HashIffCollapsedEqual ==
    lastCall.op = "_generate_command_hash"
    => /\ (lastCall.h1 = lastCall.h2)
              <=> (CollapseRuns(Lower(lastCall.c1)) = CollapseRuns(Lower(lastCall.c2)))
       /\ lastCall.again = lastCall.h1
       /\ (lastCall.c1 = CmdLsUpper /\ lastCall.c2 = CmdLs) => lastCall.h1 = lastCall.h2

\* C26, amended: the normalization also drops the whitespace at both ends.
\* Two commands have the same hash exactly when their lowercased texts,
\* stripped and with every inner run of whitespace collapsed to one space,
\* are equal; a repeated call gives the same hash; "LS  -LA" and "ls -la"
\* have the same hash.
C26_HashIffStrippedCollapsedEqual ==
    lastCall.op = "_generate_command_hash"
    => /\ (lastCall.h1 = lastCall.h2)
              <=> (CollapseRuns(Strip(Lower(lastCall.c1)))
                       = CollapseRuns(Strip(Lower(lastCall.c2))))
       /\ lastCall.again = lastCall.h1
       /\ (lastCall.c1 = CmdLsUpper /\ lastCall.c2 = CmdLs) => lastCall.h1 = lastCall.h2

\* C26 witness: a command that starts with whitespace and one that does not
\* have been hashed to the same value
C26_Witness ==
    /\ lastCall.op = "_generate_command_hash"
    /\ lastCall.c1 # <<>> /\ IsSpace(lastCall.c1[1])
    /\ lastCall.c2 # <<>> /\ ~IsSpace(lastCall.c2[1])
    /\ lastCall.h1 = lastCall.h2

====
